---- MODULE Spec2Model ----
(***************************************************************************)
(* Batch task orchestration of x2v-batch: one batch of NumItems sub-jobs   *)
(* (video items), the in-memory batch index of TaskManager, the persisted  *)
(* batch document, the owner's credit balance kept by AuthManager, and the *)
(* coroutines of server/main.py and server/batch_processor.py that act on  *)
(* them.  One step of the model is one run of a coroutine between two      *)
(* points where it really yields to the asyncio event loop.  The calls of  *)
(* BatchProcessor to the remote service go through tools/s2v_client.py,    *)
(* which uses the blocking `requests` session: they do not yield.  The     *)
(* yields are the batch save inside update_video_item (persist=True), the  *)
(* sleep between two queries of wait_for_task, and the aiohttp requests of *)
(* server/lightx2v_api.py used by the submission pass.                     *)
(***************************************************************************)
EXTENDS Integers, Sequences, FiniteSets, TLC

\* ---------------------------------------------------------------- bounds
NumItems == 2
MaxOps == 2
MaxRestarts == 1
MaxTaskId == 2
CreditsPerVideo == 2
ExtraCredits == 2
MaxAggLen == 3
NumGateItems == 5

\* ------------------------------------------------------ program constants
_SUBMIT_CONCURRENCY == 3
_SUBMIT_RETRY_ATTEMPTS == 3
PollConcurrency == 3
RetryConcurrency == 3

Items == 1..NumItems

\* the owner's credits in the users file: the price of the batch and
\* ExtraCredits more
InitialCredits == CreditsPerVideo * NumItems + ExtraCredits

\* VideoItemStatus and BatchStatus, by their enum values
PENDING == "pending"
PROCESSING == "processing"
COMPLETED == "completed"
FAILED == "failed"
CANCELLED == "cancelled"
CREATED == "created"
VideoItemStatus == {PENDING, PROCESSING, COMPLETED, FAILED, CANCELLED}
BatchStatus == {CREATED, PROCESSING, COMPLETED, FAILED, CANCELLED}
Terminal == {COMPLETED, FAILED, CANCELLED}

\* the values of item.error_msg: None, the messages the claims tell apart,
\* and OtherError for every other message the orchestrator writes ("Submit
\* failed: ...", the text of a remote or storage error, "Missing task id for
\* resume", "Resume failed", "No result URL returned", "Task status: FAILED")
NoError == "None"
CancelledByUser == "Cancelled by user"
Timeout == "Timeout"
TaskStatusCancelled == "Task status: CANCELLED"
OtherError == "other"

\* the coroutines that run _process_video_item: process_batch and reprocess_item
Slots == {"pb", "rp"}

VARIABLES
    created,          \* the batch is in TaskManager._batches
    id_returned,      \* create_batch has returned the batch id to the caller
    status,           \* item.status, per sub-job
    api_task_id,      \* item.api_task_id, 0 is None, k the k-th id recorded
    error_msg,        \* item.error_msg, per sub-job
    video_url,        \* item.video_url holds a URL returned by get_result_url
    batch_status,     \* batch.status
    credits_used,     \* batch.credits_used
    credits_charged,  \* batch.credits_charged
    store,            \* the persisted batch document
    balance,          \* user["credits"] of the owner, in memory
    sub_pc,           \* submit_one of _submit_batch_tasks, per sub-job
    attempt,          \* attempts made by submit_one, per sub-job
    pb_pc,            \* process_batch
    pv_pc,            \* _process_video_item, per slot and sub-job
    cn_pc,            \* cancel_item, per sub-job
    rs_pc,            \* resume_item, per sub-job
    rp_pc,            \* reprocess_item, per sub-job
    ops,              \* user-triggered calls made so far
    restarts,         \* crashes followed by a restart so far
    deducted,         \* total taken from the owner by settlement of this batch
    ever_completed,   \* sub-jobs that have been Completed at some time
    updated,          \* update_video_item has run for the batch
    last_charge,      \* the previous step was a settlement pass
    stale,            \* polls in flight whose sub-job cancel_item has cancelled
    crash_unsaved,    \* the crash came after each Completed sub-job was paid
                      \* once and before credits_used was saved
    refused,          \* deduct_credits has returned False for this batch
    cancel_false,     \* cancel_item has returned False at its status check
    agg_items,        \* input of Batch.update_status: the items' statuses
    agg_old,          \* batch.status before Batch.update_status
    agg_status,       \* batch.status after Batch.update_status
    agg_pc,
    gate_pass,        \* the pass whose semaphore is observed
    gate_pc           \* each sub-job's do_retry, process_item or submit_one

batchVars == <<created, id_returned, status, api_task_id, error_msg, video_url,
               batch_status, credits_used, credits_charged>>
procVars == <<sub_pc, attempt, pb_pc, pv_pc, cn_pc, rs_pc, rp_pc>>
ghostVars == <<ops, restarts, deducted, ever_completed, updated, last_charge,
               stale, crash_unsaved, refused, cancel_false>>
aggVars == <<agg_items, agg_old, agg_status, agg_pc>>
gateVars == <<gate_pass, gate_pc>>
vars == <<batchVars, store, balance, procVars, ghostVars, aggVars, gateVars>>

\* ------------------------------------------------------------ aggregator

\* Batch.update_status: the if/elif chain over the items' statuses
AllIn(sts, S) == \A k \in DOMAIN sts : sts[k] \in S
AnyIn(sts, S) == \E k \in DOMAIN sts : sts[k] \in S

update_status_mut(sts, old) ==
    IF DOMAIN sts = {} THEN old
    ELSE IF AllIn(sts, {COMPLETED}) THEN COMPLETED
    ELSE IF AnyIn(sts, {FAILED, CANCELLED})
         THEN IF AllIn(sts, {COMPLETED, FAILED, CANCELLED})
              THEN (IF AnyIn(sts, {COMPLETED}) THEN COMPLETED ELSE FAILED)
              ELSE PROCESSING
    ELSE IF AnyIn(sts, {PROCESSING}) THEN PROCESSING
    ELSE IF AnyIn(sts, {PENDING}) THEN PROCESSING
    ELSE old

update_status(sts, old) ==
    IF DOMAIN sts = {} THEN old
    ELSE IF AllIn(sts, {COMPLETED}) THEN COMPLETED
    ELSE IF AnyIn(sts, {FAILED, CANCELLED})
         THEN IF AllIn(sts, {COMPLETED, FAILED, CANCELLED})
              THEN COMPLETED
              ELSE PROCESSING
    ELSE IF AnyIn(sts, {PROCESSING}) THEN PROCESSING
    ELSE IF AnyIn(sts, {PENDING}) THEN PROCESSING
    ELSE old

\* ----------------------------------------------------------- persistence

\* Batch.to_dict / VideoItem.to_dict: the fields of the document that
\* Batch.from_dict reads back
to_dict(st, api, err, url, bs, used, charged) ==
    [exists |-> TRUE, status |-> st, api_task_id |-> api, error_msg |-> err,
     videoUrl |-> url, batch_status |-> bs, credits_used |-> used,
     credits_charged |-> charged]

NoDocument ==
    [exists |-> FALSE, status |-> [i \in Items |-> PENDING],
     api_task_id |-> [i \in Items |-> 0],
     error_msg |-> [i \in Items |-> NoError],
     videoUrl |-> [i \in Items |-> FALSE], batch_status |-> CREATED,
     credits_used |-> 0, credits_charged |-> FALSE]

\* ------------------------------------------------------------- settlement

completed_count(st) == Cardinality({i \in Items : st[i] = COMPLETED})

\* AuthManager.deduct_credits: refuses when the balance is short, else takes
\* the amount; it is a plain function that returns a bool
deduct_credits(bal, amount) ==
    IF bal < amount THEN [ok |-> FALSE, bal |-> bal]
    ELSE [ok |-> TRUE, bal |-> bal - amount]

\* `await self.auth_manager.deduct_credits(...)`: the call runs to its end and
\* returns a bool; a bool is not awaitable, so the await raises TypeError
deduct_credits_awaitable_mut == TRUE

deduct_credits_awaitable == FALSE

\* BatchProcessor._charge_completed_batch on batch (st, bs, used, charged)
\* with the owner's balance bal: the batch fields and balance after the pass,
\* the amount taken from the owner, whether the batch was saved, and whether
\* the pass ended by raising instead of returning
_charge_completed_batch(st, bs, used, charged, bal) ==
    LET same == [used |-> used, charged |-> charged, bal |-> bal,
                 took |-> 0, save |-> FALSE, raised |-> FALSE,
                 refused |-> FALSE]
        delta == completed_count(st) - (used \div CreditsPerVideo)
        credits_to_charge == CreditsPerVideo * delta
        d == deduct_credits(bal, credits_to_charge)
    IN  IF CreditsPerVideo <= 0 THEN same
        ELSE IF delta <= 0
             THEN IF bs = COMPLETED
                  THEN [same EXCEPT !.charged = TRUE, !.save = TRUE]
                  ELSE same
        ELSE IF ~deduct_credits_awaitable
             THEN [same EXCEPT !.bal = d.bal, !.took = bal - d.bal,
                               !.raised = TRUE, !.refused = ~d.ok]
        ELSE IF ~d.ok THEN [same EXCEPT !.refused = TRUE]
        ELSE [used |-> used + credits_to_charge,
              charged |-> (bs = COMPLETED) \/ charged,
              bal |-> d.bal, took |-> bal - d.bal, save |-> TRUE,
              raised |-> FALSE, refused |-> FALSE]

\* one settlement pass on the batch in memory
Settle ==
    LET r == _charge_completed_batch(status, batch_status, credits_used,
                                     credits_charged, balance)
    IN  /\ credits_used' = r.used
        /\ credits_charged' = r.charged
        /\ balance' = r.bal
        /\ deducted' = deducted + r.took
        /\ store' = IF r.save
                    THEN to_dict(status, api_task_id, error_msg, video_url,
                                 batch_status, r.used, r.charged)
                    ELSE store
        /\ last_charge' = TRUE
        /\ refused' = (refused \/ r.refused)
        /\ UNCHANGED <<created, id_returned, status, api_task_id, error_msg,
                       video_url, batch_status, ever_completed, updated, stale,
                       crash_unsaved, restarts, cancel_false>>

\* the settlement pass run on the batch as it is now raises
charge_raises ==
    _charge_completed_batch(status, batch_status, credits_used,
                            credits_charged, balance).raised

\* ------------------------------------------------------ update_video_item

\* TaskManager.update_video_item leaving the sub-jobs with statuses st2,
\* remote ids api2, error messages err2 and result URLs url2: the aggregator
\* runs, then the batch is saved if persist
update_video_item(st2, api2, err2, url2, persist) ==
    /\ status' = st2
    /\ api_task_id' = api2
    /\ error_msg' = err2
    /\ video_url' = url2
    /\ batch_status' = update_status(st2, batch_status)
    /\ store' = IF persist
                THEN to_dict(st2, api2, err2, url2,
                             update_status(st2, batch_status),
                             credits_used, credits_charged)
                ELSE store
    /\ updated' = TRUE
    /\ ever_completed' = ever_completed \cup {i \in Items : st2[i] = COMPLETED}
    /\ last_charge' = FALSE
    /\ UNCHANGED <<created, id_returned, credits_used, credits_charged,
                   balance, deducted, crash_unsaved, refused, restarts,
                   cancel_false>>

SetStatus(i, s) == [status EXCEPT ![i] = s]

\* error_msg=e: None leaves the message as it is
SetError(i, e) == IF e = NoError THEN error_msg ELSE [error_msg EXCEPT ![i] = e]

\* video_url=result_url
SetUrl(i) == [video_url EXCEPT ![i] = TRUE]

\* a step that touches neither the batch, the store nor the ledger
NoUpdate ==
    /\ last_charge' = FALSE
    /\ UNCHANGED <<batchVars, store, balance, deducted, ever_completed,
                   updated, crash_unsaved, refused, restarts, cancel_false>>

\* ------------------------------------------------------------------ Init

InitBatch ==
    /\ created = FALSE
    /\ id_returned = FALSE
    /\ status = [i \in Items |-> PENDING]
    /\ api_task_id = [i \in Items |-> 0]
    /\ error_msg = [i \in Items |-> NoError]
    /\ video_url = [i \in Items |-> FALSE]
    /\ batch_status = CREATED
    /\ credits_used = 0
    /\ credits_charged = FALSE
    /\ store = NoDocument
    /\ balance = InitialCredits
    /\ sub_pc = [i \in Items |-> "idle"]
    /\ attempt = [i \in Items |-> 0]
    /\ pb_pc = "idle"
    /\ pv_pc = [s \in Slots |-> [i \in Items |-> "idle"]]
    /\ cn_pc = [i \in Items |-> "idle"]
    /\ rs_pc = [i \in Items |-> "idle"]
    /\ rp_pc = [i \in Items |-> "idle"]
    /\ ops = 0
    /\ restarts = 0
    /\ deducted = 0
    /\ ever_completed = {}
    /\ updated = FALSE
    /\ last_charge = FALSE
    /\ stale = {}
    /\ crash_unsaved = FALSE
    /\ refused = FALSE
    /\ cancel_false = FALSE

Init ==
    /\ InitBatch
    /\ agg_items = <<>>
    /\ agg_old = CREATED
    /\ agg_status = CREATED
    /\ agg_pc = "off"
    /\ gate_pass = "off"
    /\ gate_pc = <<>>

\* ------------------------------------------------- creation and submission

\* what TaskManager.create_batch leaves in the store: it saves nothing
store_after_create_mut(doc) ==
    to_dict([i \in Items |-> PENDING], [i \in Items |-> 0],
            [i \in Items |-> NoError], [i \in Items |-> FALSE], CREATED, 0, FALSE)

store_after_create(doc) == doc

\* POST /api/video/batch: the owner has the credits for every sub-job, the
\* batch and its sub-jobs enter the in-memory index, _submit_batch_tasks is
\* scheduled and the batch id is returned
create_batch ==
    /\ ~id_returned
    /\ balance >= CreditsPerVideo * NumItems
    /\ created' = TRUE
    /\ id_returned' = TRUE
    /\ status' = [i \in Items |-> PENDING]
    /\ api_task_id' = [i \in Items |-> 0]
    /\ error_msg' = [i \in Items |-> NoError]
    /\ video_url' = [i \in Items |-> FALSE]
    /\ batch_status' = CREATED
    /\ credits_used' = 0
    /\ credits_charged' = FALSE
    /\ store' = store_after_create(store)
    /\ sub_pc' = [i \in Items |-> "waiting"]
    /\ attempt' = [i \in Items |-> 0]
    /\ last_charge' = FALSE
    /\ UNCHANGED <<balance, pb_pc, pv_pc, cn_pc, rs_pc, rp_pc, ops, restarts,
                   deducted, ever_completed, updated, stale, crash_unsaved,
                   refused, cancel_false, aggVars, gateVars>>

\* sub-jobs inside the gated section of the submission pass
InSubmitGate == {i \in Items : sub_pc[i] = "submitting"}

\* submit_one after its stagger sleep: it takes the semaphore and sends the
\* first submit request
submit_one_enter(i) ==
    /\ created
    /\ sub_pc[i] = "waiting"
    /\ Cardinality(InSubmitGate) < _SUBMIT_CONCURRENCY
    /\ sub_pc' = [sub_pc EXCEPT ![i] = "submitting"]
    /\ NoUpdate
    /\ UNCHANGED <<attempt, pb_pc, pv_pc, cn_pc, rs_pc, rp_pc, ops, stale, aggVars, gateVars>>

\* submit_one: after a failed attempt number att + 1 the loop goes round again
retry_left_mut(att) == att < _SUBMIT_RETRY_ATTEMPTS

retry_left(att) == att + 1 < _SUBMIT_RETRY_ATTEMPTS

\* submit_one: one answer of lightx2v_api.submit_task for sub-job i
submit_one(i, accepted) ==
    /\ created
    /\ sub_pc[i] = "submitting"
    /\ IF accepted
       THEN /\ api_task_id[i] < MaxTaskId
            /\ update_video_item(status,
                   [api_task_id EXCEPT ![i] = api_task_id[i] + 1],
                   error_msg, video_url, FALSE)
            /\ sub_pc' = [sub_pc EXCEPT ![i] = "done"]
            /\ attempt' = [attempt EXCEPT ![i] = attempt[i] + 1]
       ELSE IF retry_left(attempt[i])
       THEN /\ NoUpdate
            /\ attempt' = [attempt EXCEPT ![i] = attempt[i] + 1]
            /\ UNCHANGED sub_pc
       ELSE /\ update_video_item(SetStatus(i, PENDING), api_task_id,
                                 SetError(i, OtherError), video_url, FALSE)
            /\ sub_pc' = [sub_pc EXCEPT ![i] = "done"]
            /\ attempt' = [attempt EXCEPT ![i] = attempt[i] + 1]
    /\ UNCHANGED <<pb_pc, pv_pc, cn_pc, rs_pc, rp_pc, ops, stale, aggVars, gateVars>>

\* ---------------------------------------------------------- process_batch

\* the gather of _submit_batch_tasks has returned: process_batch and
\* save_batch are started; process_batch sets batch.status and saves
process_batch_start ==
    /\ created
    /\ pb_pc = "idle"
    /\ \A i \in Items : sub_pc[i] = "done"
    /\ batch_status' = PROCESSING
    /\ store' = to_dict(status, api_task_id, error_msg, video_url, PROCESSING,
                        credits_used, credits_charged)
    /\ pb_pc' = "load"
    /\ last_charge' = FALSE
    /\ UNCHANGED <<created, id_returned, status, api_task_id, error_msg,
                   video_url, credits_used,
                   credits_charged, balance, sub_pc, attempt, pv_pc, cn_pc,
                   rs_pc, rp_pc, ops, restarts, deducted, ever_completed,
                   updated, stale, crash_unsaved, refused, cancel_false,
                   aggVars, gateVars>>

\* process_batch loads the audio (FileNotFoundError ends the pass) and
\* gathers one _process_video_item per sub-job
process_batch_load(found) ==
    /\ pb_pc = "load"
    /\ NoUpdate
    /\ IF found
       THEN /\ pb_pc' = "items"
            /\ pv_pc' = [pv_pc EXCEPT !["pb"] = [i \in Items |-> "start"]]
       ELSE /\ pb_pc' = "done"
            /\ UNCHANGED pv_pc
    /\ UNCHANGED <<sub_pc, attempt, cn_pc, rs_pc, rp_pc, ops, stale, aggVars, gateVars>>

\* sub-jobs holding the semaphore of the pass that runs slot s
InPollGate(s) == {i \in Items : pv_pc[s][i] \in {"submit", "poll"}}

\* _process_video_item up to its first save: a Cancelled sub-job is skipped,
\* any other is marked Processing
process_video_item_start(s, i) ==
    /\ pv_pc[s][i] = "start"
    /\ Cardinality(InPollGate(s)) < PollConcurrency
    /\ IF status[i] = CANCELLED
       THEN /\ NoUpdate
            /\ pv_pc' = [pv_pc EXCEPT ![s][i] = "done"]
       ELSE /\ update_video_item(SetStatus(i, PROCESSING), api_task_id,
                                 error_msg, video_url, TRUE)
            /\ pv_pc' = [pv_pc EXCEPT ![s][i] = "submit"]
    /\ UNCHANGED <<sub_pc, attempt, pb_pc, cn_pc, rs_pc, rp_pc, ops, stale, aggVars, gateVars>>

SubmitOutcomes == {"no_image", "rejected", "accepted"}

\* _process_video_item: the image is loaded and the task submitted through
\* S2VClient.submit_task; a missing image raises into the handler that marks
\* the sub-job Failed, a rejected submit marks it Failed, an accepted one
\* records the returned task id
process_video_item_submit(s, i, out) ==
    /\ pv_pc[s][i] = "submit"
    /\ IF out = "accepted"
       THEN /\ api_task_id[i] < MaxTaskId
            /\ update_video_item(status,
                   [api_task_id EXCEPT ![i] = api_task_id[i] + 1],
                   error_msg, video_url, TRUE)
            /\ pv_pc' = [pv_pc EXCEPT ![s][i] = "poll"]
       ELSE /\ update_video_item(SetStatus(i, FAILED), api_task_id,
                   SetError(i, OtherError),
                   video_url, TRUE)
            /\ pv_pc' = [pv_pc EXCEPT ![s][i] = "done"]
    /\ UNCHANGED <<sub_pc, attempt, pb_pc, cn_pc, rs_pc, rp_pc, ops, stale, aggVars, gateVars>>

\* what wait_for_task and get_result_url return when the poll resolves
PollOutcomes ==
    {[success |-> FALSE, status |-> "error", url |-> FALSE],
     [success |-> FALSE, status |-> "Timeout", url |-> FALSE],
     [success |-> TRUE, status |-> "SUCCEED", url |-> TRUE],
     [success |-> TRUE, status |-> "SUCCEED", url |-> FALSE],
     [success |-> TRUE, status |-> "FAILED", url |-> FALSE],
     [success |-> TRUE, status |-> "CANCELLED", url |-> FALSE]}

\* the status _process_video_item and resume_item write for a poll result
poll_status(out) ==
    IF ~out.success THEN FAILED
    ELSE IF out.status = "SUCCEED"
         THEN (IF out.url THEN COMPLETED ELSE FAILED)
    ELSE FAILED

\* the error message they write with it, None with Completed
poll_error_mut(out) ==
    IF ~out.success THEN OtherError
    ELSE IF out.status = "SUCCEED"
         THEN (IF out.url THEN NoError ELSE OtherError)
    ELSE IF out.status = "FAILED" THEN OtherError
    ELSE TaskStatusCancelled

poll_error(out) ==
    IF ~out.success
    THEN (IF out.status = "Timeout" THEN Timeout ELSE OtherError)
    ELSE IF out.status = "SUCCEED"
         THEN (IF out.url THEN NoError ELSE OtherError)
    ELSE IF out.status = "FAILED" THEN OtherError
    ELSE TaskStatusCancelled

\* the result URLs after the poll result is written for sub-job i
poll_url(i, out) ==
    IF poll_status(out) = COMPLETED THEN SetUrl(i) ELSE video_url

\* _process_video_item: wait_for_task returns; the result is dropped if the
\* sub-job is Cancelled now, else written
process_video_item_poll(s, i, out) ==
    /\ pv_pc[s][i] = "poll"
    /\ IF status[i] = CANCELLED
       THEN NoUpdate
       ELSE update_video_item(SetStatus(i, poll_status(out)), api_task_id,
                              SetError(i, poll_error(out)), poll_url(i, out), TRUE)
    /\ pv_pc' = [pv_pc EXCEPT ![s][i] = "done"]
    /\ stale' = stale \ {<<s, i>>}
    /\ UNCHANGED <<sub_pc, attempt, pb_pc, cn_pc, rs_pc, rp_pc, ops, aggVars, gateVars>>

\* process_batch after the gather: the aggregator runs and the batch is saved
process_batch_final ==
    /\ pb_pc = "items"
    /\ \A i \in Items : pv_pc["pb"][i] = "done"
    /\ batch_status' = update_status(status, batch_status)
    /\ store' = to_dict(status, api_task_id, error_msg, video_url,
                        update_status(status, batch_status),
                        credits_used, credits_charged)
    /\ pb_pc' = "charge"
    /\ pv_pc' = [pv_pc EXCEPT !["pb"] = [i \in Items |-> "idle"]]
    /\ last_charge' = FALSE
    /\ UNCHANGED <<created, id_returned, status, api_task_id, error_msg,
                   video_url, credits_used,
                   credits_charged, balance, sub_pc, attempt, cn_pc, rs_pc,
                   rp_pc, ops, restarts, deducted, ever_completed, updated,
                   stale, crash_unsaved, refused, cancel_false, aggVars, gateVars>>

\* process_batch: the settlement pass that ends it
process_batch_charge ==
    /\ pb_pc = "charge"
    /\ Settle
    /\ pb_pc' = "done"
    /\ UNCHANGED <<sub_pc, attempt, pv_pc, cn_pc, rs_pc, rp_pc, ops, aggVars, gateVars>>

\* ------------------------------------------------------------ cancel_item

\* the polls in flight for sub-job i
PollsInFlight(i) ==
    {<<s, i>> : s \in {t \in Slots : pv_pc[t][i] = "poll"}}
    \cup (IF rs_pc[i] = "poll" THEN {<<"rs", i>>} ELSE {})

\* the status check of cancel_item: a finished sub-job is not cancelled
cancel_item_early_return_mut(i) == status[i] \in {COMPLETED, FAILED}

cancel_item_early_return(i) == status[i] \in {COMPLETED, FAILED, CANCELLED}

\* cancel_item: on a finished sub-job it returns False at once; on a Pending
\* or Processing one the remote cancel is called when there is a task id,
\* whatever it answers the sub-job is marked Cancelled and the batch saved
cancel_item(i) ==
    /\ created
    /\ ops < MaxOps
    /\ cn_pc[i] = "idle"
    /\ IF cancel_item_early_return(i)
       THEN /\ cancel_false' = TRUE
            /\ last_charge' = FALSE
            /\ UNCHANGED <<batchVars, store, balance, deducted,
                           ever_completed, updated, crash_unsaved, refused,
                           restarts, cn_pc, stale>>
       ELSE /\ update_video_item(SetStatus(i, CANCELLED), api_task_id,
                                 SetError(i, CancelledByUser), video_url, TRUE)
            /\ cn_pc' = [cn_pc EXCEPT ![i] = "charge"]
            /\ stale' = stale \cup PollsInFlight(i)
    /\ ops' = ops + 1
    /\ UNCHANGED <<sub_pc, attempt, pb_pc, pv_pc, rs_pc, rp_pc, aggVars, gateVars>>

\* cancel_item: the settlement pass that ends it
cancel_item_charge(i) ==
    /\ cn_pc[i] = "charge"
    /\ Settle
    /\ cn_pc' = [cn_pc EXCEPT ![i] = "idle"]
    /\ UNCHANGED <<sub_pc, attempt, pb_pc, pv_pc, rs_pc, rp_pc, ops, aggVars, gateVars>>

\* ------------------------------------------------------------ resume_item

\* resume_item up to its first save, on the sub-jobs' statuses st: a Failed
\* sub-job without a task id is written Failed again, one with a task id is
\* marked Processing
resume_first_status(st, api, i) ==
    IF api[i] = 0 THEN FAILED ELSE PROCESSING

resume_first_pc(api, i) ==
    IF api[i] = 0 THEN "charge" ELSE "resume"

resume_first_error(api, i) ==
    IF api[i] = 0 THEN OtherError ELSE NoError

resume_item(i) ==
    /\ created
    /\ ops < MaxOps
    /\ rs_pc[i] = "idle"
    /\ status[i] = FAILED
    /\ update_video_item(SetStatus(i, resume_first_status(status, api_task_id, i)),
                         api_task_id,
                         SetError(i, resume_first_error(api_task_id, i)),
                         video_url, TRUE)
    /\ rs_pc' = [rs_pc EXCEPT ![i] = resume_first_pc(api_task_id, i)]
    /\ ops' = ops + 1
    /\ UNCHANGED <<sub_pc, attempt, pb_pc, pv_pc, cn_pc, rp_pc, stale, aggVars, gateVars>>

\* what resume_task, and the query_task and get_result_url that follow a
\* "Succeed task cannot be resumed" answer, return: resumed, rejected for
\* another reason, already succeeded with query_task confirming it and a
\* result URL, the same without a result URL, already succeeded with
\* query_task not confirming it
ResumeOutcomes ==
    {"ok", "rejected", "succeeded_url", "succeeded_no_url",
     "succeeded_unconfirmed"}

\* the status resume_item writes for an answer of the remote resume that is
\* not "ok"
resume_call_status_mut(out) == FAILED

resume_call_status(out) == IF out = "succeeded_url" THEN COMPLETED ELSE FAILED

\* resume_item: the answer of the remote resume; on "ok" the poll starts, on
\* an already succeeded task with a result URL the sub-job is Completed,
\* otherwise it is Failed; the status is written without reading it again
\* and the settlement pass follows
resume_item_call(i, out) ==
    /\ rs_pc[i] = "resume"
    /\ IF out = "ok"
       THEN /\ NoUpdate
            /\ rs_pc' = [rs_pc EXCEPT ![i] = "poll"]
       ELSE /\ update_video_item(
                   SetStatus(i, resume_call_status(out)),
                   api_task_id,
                   SetError(i, IF resume_call_status(out) = COMPLETED
                               THEN NoError ELSE OtherError),
                   IF resume_call_status(out) = COMPLETED
                   THEN SetUrl(i) ELSE video_url,
                   TRUE)
            /\ rs_pc' = [rs_pc EXCEPT ![i] =
                             IF resume_call_status(out) = COMPLETED
                             THEN "sync_charge" ELSE "charge"]
    /\ UNCHANGED <<sub_pc, attempt, pb_pc, pv_pc, cn_pc, rp_pc, ops, stale, aggVars, gateVars>>

\* resume_item: wait_for_task returns; a Cancelled sub-job ends the call, a
\* transport error or timeout marks it Failed and returns without settlement,
\* any other result is written and followed by settlement
resume_item_poll(i, out) ==
    /\ rs_pc[i] = "poll"
    /\ IF status[i] = CANCELLED
       THEN /\ NoUpdate
            /\ rs_pc' = [rs_pc EXCEPT ![i] = "idle"]
       ELSE /\ update_video_item(SetStatus(i, poll_status(out)), api_task_id,
                                 SetError(i, poll_error(out)), poll_url(i, out), TRUE)
            /\ rs_pc' = [rs_pc EXCEPT ![i] = IF out.success THEN "charge" ELSE "idle"]
    /\ stale' = stale \ {<<"rs", i>>}
    /\ UNCHANGED <<sub_pc, attempt, pb_pc, pv_pc, cn_pc, rp_pc, ops, aggVars, gateVars>>

\* resume_item: the settlement pass that ends it
resume_item_charge(i) ==
    /\ rs_pc[i] \in {"charge", "sync_charge"}
    /\ Settle
    /\ rs_pc' = [rs_pc EXCEPT ![i] = "idle"]
    /\ UNCHANGED <<sub_pc, attempt, pb_pc, pv_pc, cn_pc, rp_pc, ops, aggVars, gateVars>>

\* --------------------------------------------------------- reprocess_item

\* reprocess_item on a Cancelled sub-job: it is marked Pending and saved
reprocess_item(i) ==
    /\ created
    /\ ops < MaxOps
    /\ rp_pc[i] = "idle"
    /\ status[i] = CANCELLED
    /\ update_video_item(SetStatus(i, PENDING), api_task_id, error_msg,
                         video_url, TRUE)
    /\ rp_pc' = [rp_pc EXCEPT ![i] = "load"]
    /\ ops' = ops + 1
    /\ UNCHANGED <<sub_pc, attempt, pb_pc, pv_pc, cn_pc, rs_pc, stale, aggVars, gateVars>>

\* reprocess_item loads the audio (FileNotFoundError ends the call) and runs
\* _process_video_item on the sub-job
reprocess_item_load(i, found) ==
    /\ rp_pc[i] = "load"
    /\ NoUpdate
    /\ IF found
       THEN /\ rp_pc' = [rp_pc EXCEPT ![i] = "item"]
            /\ pv_pc' = [pv_pc EXCEPT !["rp"][i] = "start"]
       ELSE /\ rp_pc' = [rp_pc EXCEPT ![i] = "idle"]
            /\ UNCHANGED pv_pc
    /\ UNCHANGED <<sub_pc, attempt, pb_pc, cn_pc, rs_pc, ops, stale, aggVars, gateVars>>

\* reprocess_item: the settlement pass after _process_video_item has returned
reprocess_item_charge(i) ==
    /\ rp_pc[i] = "item"
    /\ pv_pc["rp"][i] = "done"
    /\ Settle
    /\ rp_pc' = [rp_pc EXCEPT ![i] = "idle"]
    /\ pv_pc' = [pv_pc EXCEPT !["rp"][i] = "idle"]
    /\ UNCHANGED <<sub_pc, attempt, pb_pc, cn_pc, rs_pc, ops, aggVars, gateVars>>

\* ---------------------------------------------------- resume_failed_items

\* resume_failed_items: the Failed and Cancelled sub-jobs are gathered under
\* a semaphore of 3; each do_retry runs resume_item or reprocess_item up to
\* its first save before the event loop serves anything else
resume_failed_items ==
    LET failed == {i \in Items : status[i] = FAILED}
        cancelled == {i \in Items : status[i] = CANCELLED}
        st2 == [i \in Items |->
                   IF i \in failed THEN resume_first_status(status, api_task_id, i)
                   ELSE IF i \in cancelled THEN PENDING
                   ELSE status[i]]
        err2 == [i \in Items |->
                    IF i \in failed /\ resume_first_error(api_task_id, i) # NoError
                    THEN resume_first_error(api_task_id, i)
                    ELSE error_msg[i]]
    IN  /\ created
        /\ ops < MaxOps
        /\ failed \cup cancelled # {}
        /\ Cardinality(failed \cup cancelled) <= PollConcurrency
        /\ \A i \in failed : rs_pc[i] = "idle"
        /\ \A i \in cancelled : rp_pc[i] = "idle"
        /\ update_video_item(st2, api_task_id, err2, video_url, TRUE)
        /\ rs_pc' = [i \in Items |->
                        IF i \in failed THEN resume_first_pc(api_task_id, i)
                        ELSE rs_pc[i]]
        /\ rp_pc' = [i \in Items |-> IF i \in cancelled THEN "load" ELSE rp_pc[i]]
        /\ ops' = ops + 1
        /\ UNCHANGED <<sub_pc, attempt, pb_pc, pv_pc, cn_pc, stale, aggVars, gateVars>>

\* ------------------------------------------------ _charge_completed_batch

\* _charge_completed_batch called on its own
charge_completed_batch ==
    /\ created
    /\ ops < MaxOps
    /\ Settle
    /\ ops' = ops + 1
    /\ UNCHANGED <<procVars, aggVars, gateVars>>

\* ------------------------------------------------------------------ crash

\* the process dies and is started again: every coroutine is gone,
\* TaskManager loads the batches from their documents (Batch.from_dict) and
\* AuthManager loads the users file, which deduct_credits never rewrites
restart ==
    /\ id_returned
    /\ restarts < MaxRestarts
    /\ restarts' = restarts + 1
    /\ created' = store.exists
    /\ status' = store.status
    /\ api_task_id' = store.api_task_id
    /\ error_msg' = store.error_msg
    /\ video_url' = store.videoUrl
    /\ batch_status' = store.batch_status
    /\ credits_used' = store.credits_used
    /\ credits_charged' = store.credits_charged
    /\ balance' = InitialCredits
    /\ sub_pc' = [i \in Items |-> "idle"]
    /\ attempt' = [i \in Items |-> 0]
    /\ pb_pc' = "done"
    /\ pv_pc' = [s \in Slots |-> [i \in Items |-> "idle"]]
    /\ cn_pc' = [i \in Items |-> "idle"]
    /\ rs_pc' = [i \in Items |-> "idle"]
    /\ rp_pc' = [i \in Items |-> "idle"]
    /\ stale' = {}
    /\ last_charge' = FALSE
    /\ crash_unsaved' = /\ deducted > 0
                        /\ deducted = CreditsPerVideo * completed_count(store.status)
                        /\ store.credits_used < deducted
    /\ UNCHANGED <<id_returned, store, ops, deducted, ever_completed, updated,
                   refused, cancel_false, aggVars, gateVars>>

\* ------------------------------------------------------------------- Next

Next ==
    \/ create_batch
    \/ \E i \in Items : submit_one_enter(i)
    \/ \E i \in Items, accepted \in BOOLEAN : submit_one(i, accepted)
    \/ process_batch_start
    \/ \E found \in BOOLEAN : process_batch_load(found)
    \/ \E s \in Slots, i \in Items : process_video_item_start(s, i)
    \/ \E s \in Slots, i \in Items, out \in SubmitOutcomes :
          process_video_item_submit(s, i, out)
    \/ \E s \in Slots, i \in Items, out \in PollOutcomes :
          process_video_item_poll(s, i, out)
    \/ process_batch_final
    \/ process_batch_charge
    \/ \E i \in Items : cancel_item(i)
    \/ \E i \in Items : cancel_item_charge(i)
    \/ \E i \in Items : resume_item(i)
    \/ \E i \in Items, out \in ResumeOutcomes : resume_item_call(i, out)
    \/ \E i \in Items, out \in PollOutcomes : resume_item_poll(i, out)
    \/ \E i \in Items : resume_item_charge(i)
    \/ \E i \in Items : reprocess_item(i)
    \/ \E i \in Items, found \in BOOLEAN : reprocess_item_load(i, found)
    \/ \E i \in Items : reprocess_item_charge(i)
    \/ resume_failed_items
    \/ charge_completed_batch
    \/ restart

Spec == Init /\ [][Next]_vars

\* ---------------------------------------------------- fair, crash-free runs

\* the batch when the gather of _submit_batch_tasks has returned and the user
\* has not acted yet: every sub-job is Pending, either with the task id of a
\* first attempt that succeeded or without one after three failed attempts
SubmittedOk == [Items -> BOOLEAN]

InitLive ==
    \E ok \in SubmittedOk :
        /\ created = TRUE
        /\ id_returned = TRUE
        /\ status = [i \in Items |-> PENDING]
        /\ api_task_id = [i \in Items |-> IF ok[i] THEN 1 ELSE 0]
        /\ error_msg = [i \in Items |-> IF ok[i] THEN NoError ELSE OtherError]
        /\ video_url = [i \in Items |-> FALSE]
        /\ batch_status = PROCESSING
        /\ credits_used = 0
        /\ credits_charged = FALSE
        /\ store = NoDocument
        /\ balance = InitialCredits
        /\ sub_pc = [i \in Items |-> "done"]
        /\ attempt = [i \in Items |-> IF ok[i] THEN 1 ELSE _SUBMIT_RETRY_ATTEMPTS]
        /\ pb_pc = "idle"
        /\ pv_pc = [s \in Slots |-> [i \in Items |-> "idle"]]
        /\ cn_pc = [i \in Items |-> "idle"]
        /\ rs_pc = [i \in Items |-> "idle"]
        /\ rp_pc = [i \in Items |-> "idle"]
        /\ ops = 0
        /\ restarts = 0
        /\ deducted = 0
        /\ ever_completed = {}
        /\ updated = TRUE
        /\ last_charge = FALSE
        /\ stale = {}
        /\ crash_unsaved = FALSE
        /\ refused = FALSE
        /\ cancel_false = FALSE
        /\ agg_items = <<>>
        /\ agg_old = CREATED
        /\ agg_status = CREATED
        /\ agg_pc = "off"
        /\ gate_pass = "off"
        /\ gate_pc = <<>>

\* the program from there on, without crashes: the user's calls and every
\* coroutine step
NextLive ==
    \/ process_batch_start
    \/ \E found \in BOOLEAN : process_batch_load(found)
    \/ \E s \in Slots, i \in Items : process_video_item_start(s, i)
    \/ \E s \in Slots, i \in Items, out \in SubmitOutcomes :
          process_video_item_submit(s, i, out)
    \/ \E s \in Slots, i \in Items, out \in PollOutcomes :
          process_video_item_poll(s, i, out)
    \/ process_batch_final
    \/ process_batch_charge
    \/ \E i \in Items : cancel_item(i)
    \/ \E i \in Items : cancel_item_charge(i)
    \/ \E i \in Items : resume_item(i)
    \/ \E i \in Items, out \in ResumeOutcomes : resume_item_call(i, out)
    \/ \E i \in Items, out \in PollOutcomes : resume_item_poll(i, out)
    \/ \E i \in Items : resume_item_charge(i)
    \/ \E i \in Items : reprocess_item(i)
    \/ \E i \in Items, found \in BOOLEAN : reprocess_item_load(i, found)
    \/ \E i \in Items : reprocess_item_charge(i)
    \/ resume_failed_items

\* a step of a coroutine that has been started: everything but the user's calls
CoroutineStep ==
    \/ process_batch_start
    \/ \E found \in BOOLEAN : process_batch_load(found)
    \/ \E s \in Slots, i \in Items : process_video_item_start(s, i)
    \/ \E s \in Slots, i \in Items, out \in SubmitOutcomes :
          process_video_item_submit(s, i, out)
    \/ \E s \in Slots, i \in Items, out \in PollOutcomes :
          process_video_item_poll(s, i, out)
    \/ process_batch_final
    \/ process_batch_charge
    \/ \E i \in Items : cancel_item_charge(i)
    \/ \E i \in Items, out \in ResumeOutcomes : resume_item_call(i, out)
    \/ \E i \in Items, out \in PollOutcomes : resume_item_poll(i, out)
    \/ \E i \in Items : resume_item_charge(i)
    \/ \E i \in Items, found \in BOOLEAN : reprocess_item_load(i, found)
    \/ \E i \in Items : reprocess_item_charge(i)

\* the event loop keeps running a coroutine that is ready, and every remote or
\* storage call returns; the user's calls are under no obligation
Fairness == WF_vars(CoroutineStep)

SpecLive == InitLive /\ [][NextLive]_vars /\ Fairness

\* ------------------------------------------- Batch.update_status on its own

\* every list of up to MaxAggLen sub-job statuses, with every batch status
InitAgg ==
    /\ InitBatch
    /\ agg_items \in UNION {[1..n -> VideoItemStatus] : n \in 0..MaxAggLen}
    /\ agg_old \in BatchStatus
    /\ agg_status = agg_old
    /\ agg_pc = "input"
    /\ gate_pass = "off"
    /\ gate_pc = <<>>

\* batch.update_status()
agg_update_status ==
    /\ agg_pc = "input"
    /\ agg_status' = update_status(agg_items, agg_status)
    /\ agg_pc' = "updated"
    /\ UNCHANGED <<batchVars, store, balance, procVars, ghostVars, agg_items,
                   agg_old, gateVars>>

NextAgg == agg_update_status

SpecAgg == InitAgg /\ [][NextAgg]_vars

\* ------------------------------------- the semaphore of one pass on its own

\* the passes that gather their sub-jobs under an asyncio.Semaphore, and the
\* value each semaphore is created with
Passes == {"submit", "process", "retry"}

gate_limit(pass) ==
    IF pass = "submit" THEN _SUBMIT_CONCURRENCY
    ELSE IF pass = "process" THEN PollConcurrency
    ELSE RetryConcurrency

GateItems == 1..NumGateItems

\* the coroutines of the pass that are inside `async with semaphore`
InGate == {i \in GateItems : gate_pc[i] = "inside"}

\* Semaphore.acquire returns at once while the counter is positive
sem_free_mut(inside, limit) == Cardinality(inside) <= limit

sem_free(inside, limit) == Cardinality(inside) < limit

\* one pass has gathered a coroutine per sub-job of the batch
InitGate ==
    /\ InitBatch
    /\ agg_items = <<>>
    /\ agg_old = CREATED
    /\ agg_status = CREATED
    /\ agg_pc = "off"
    /\ gate_pass \in Passes
    /\ gate_pc = [i \in GateItems |-> "waiting"]

\* `async with semaphore`: the coroutine of sub-job i acquires it
gate_enter(i) ==
    /\ gate_pc[i] = "waiting"
    /\ sem_free(InGate, gate_limit(gate_pass))
    /\ gate_pc' = [gate_pc EXCEPT ![i] = "inside"]
    /\ UNCHANGED <<batchVars, store, balance, procVars, ghostVars, aggVars,
                   gate_pass>>

\* the body of the coroutine of sub-job i returns or raises, in any order
\* among the coroutines inside: the semaphore is released
gate_leave(i) ==
    /\ gate_pc[i] = "inside"
    /\ gate_pc' = [gate_pc EXCEPT ![i] = "done"]
    /\ UNCHANGED <<batchVars, store, balance, procVars, ghostVars, aggVars,
                   gate_pass>>

NextGate ==
    \/ \E i \in GateItems : gate_enter(i)
    \/ \E i \in GateItems : gate_leave(i)

SpecGate == InitGate /\ [][NextGate]_vars

\* ----------------------------------------------------------------- claims

\* C1: with credits_per_video > 0, credits_used is a multiple of
\* credits_per_video and credits_used / credits_per_video is at most the number
\* of sub-jobs that are Completed now, in every reachable state.
C1_CreditsNeverAhead ==
    (created /\ CreditsPerVideo > 0) =>
        /\ credits_used % CreditsPerVideo = 0
        /\ credits_used \div CreditsPerVideo <= completed_count(status)

\* a settlement pass has just taken credits for a Completed sub-job
C1_Witness ==
    /\ created
    /\ last_charge
    /\ deducted > 0
    /\ completed_count(status) >= 1

\* C2: the total deducted from the owner for the batch never exceeds
\* credits_per_video times the number of its Completed sub-jobs.
C2_NoDoubleCharge ==
    deducted <= CreditsPerVideo * completed_count(status)

\* C3: a settlement pass that directly follows a settlement pass deducts
\* nothing and leaves credits_used as it is.
C3_SecondSettlementNoOp ==
    [][(last_charge /\ last_charge') =>
          (balance' = balance /\ credits_used' = credits_used)]_vars

\* C4: when a poll resolves whose sub-job cancel_item marked Cancelled while
\* the poll was in flight, the sub-job's status does not change.
C4_StalePollDiscarded ==
    [][\A p \in stale :
          (p \notin stale' /\ restarts' = restarts) =>
              status'[p[2]] = status[p[2]]]_vars

\* C5: a sub-job that is Completed stays Completed in every step.
C5_CompletedIsTerminal ==
    [][\A i \in Items : status[i] = COMPLETED => status'[i] = COMPLETED]_vars

\* C6: after a crash that came when every Completed sub-job had been paid once
\* and credits_used was not yet saved, the total deducted never exceeds
\* credits_per_video times the number of sub-jobs that were ever Completed.
C6_NoRechargeAfterCrash ==
    (restarts > 0 /\ crash_unsaved) =>
        deducted <= CreditsPerVideo * Cardinality(ever_completed)

\* C7: once create_batch has returned the batch id, a batch with all its
\* sub-jobs is there after any crash and restart.
C7_BatchSurvivesCrash ==
    (id_returned /\ restarts > 0) => created

\* C7 as amended: create_batch saves nothing; the batch document exists only
\* once the submission pass has ended and process_batch has started, or a user
\* operation has saved the batch; after a restart the batch is there exactly
\* when its document is, with every sub-job in it.
C7_DurableOnlyAfterSubmission ==
    /\ store.exists => (pb_pc # "idle" \/ ops > 0)
    /\ restarts > 0 => (created <=> store.exists)
    /\ store.exists => DOMAIN store.status = Items

\* a crash during submission has lost the batch whose id was returned
C7_Witness ==
    /\ id_returned
    /\ restarts > 0
    /\ ~created
    /\ ops = 0

\* C8: a remote job id that is set is not replaced or removed by any step of
\* the running program.
C8_RemoteIdSetOnce ==
    [][\A i \in Items :
          (api_task_id[i] # 0 /\ restarts' = restarts) =>
              api_task_id'[i] = api_task_id[i]]_vars

\* C9: after the first sub-job update, batch.status is what Batch.update_status
\* yields for the current sub-job statuses.
C9_StatusAlwaysDerived ==
    (created /\ updated) => batch_status = update_status(status, batch_status)

\* C10: Batch.update_status leaves Completed exactly when there is a sub-job
\* and every sub-job is Completed, Failed or Cancelled, Processing when there
\* is a sub-job that is not, and the old status when there is no sub-job.
C10_AggregatorAgrees ==
    agg_pc = "updated" =>
        agg_status =
            IF Len(agg_items) = 0 THEN agg_old
            ELSE IF \A k \in 1..Len(agg_items) : agg_items[k] \in Terminal
                 THEN COMPLETED
                 ELSE PROCESSING

\* the aggregator has run on two Failed sub-jobs
C10_Witness ==
    /\ agg_pc = "updated"
    /\ agg_items = <<FAILED, FAILED>>
    /\ agg_status = COMPLETED

\* C11: cancel_item on a Pending or Processing sub-job marks it Cancelled
\* within the call whatever the remote cancel answers, and the call ends by
\* returning True (its settlement pass does not raise).
C11_CancelReturnsTrue ==
    [][\A i \in Items :
          /\ (cn_pc[i] = "idle" /\ cn_pc'[i] = "charge") => status'[i] = CANCELLED
          /\ (cn_pc[i] = "charge" /\ cn_pc'[i] = "idle" /\ restarts' = restarts) =>
                 ~charge_raises]_vars

\* no coroutine of the orchestrator is running or scheduled for the batch
Quiescent ==
    /\ \A i \in Items : sub_pc[i] \in {"idle", "done"}
    /\ pb_pc = "done"
    /\ \A s \in Slots, i \in Items : pv_pc[s][i] = "idle"
    /\ \A i \in Items : cn_pc[i] = "idle" /\ rs_pc[i] = "idle" /\ rp_pc[i] = "idle"

\* C12: when no orchestrator operation is in flight, none was cut off by a
\* crash and deduct_credits has never refused, credits_used is
\* credits_per_video times the number of Completed sub-jobs.
C12_CreditsUsedMatchesCompleted ==
    (created /\ Quiescent /\ restarts = 0 /\ ~refused) =>
        credits_used = CreditsPerVideo * completed_count(status)

\* C13: in the submission pass no sub-job is submitted more than 3 times, none
\* is submitted again once its submit_one has ended, a sub-job whose
\* submit_one ends before the third attempt has failed has a task id recorded,
\* and recording the id leaves the status as it was: Pending, unless a user
\* operation has changed it.
C13_SubmitAtMostThrice ==
    [][\A i \in Items :
          /\ attempt'[i] <= 3
          /\ (sub_pc[i] = "done" /\ sub_pc'[i] = "done") => attempt'[i] = attempt[i]
          /\ (sub_pc[i] = "submitting" /\ sub_pc'[i] = "done") =>
                 /\ attempt'[i] < 3 => api_task_id'[i] # 0
                 /\ api_task_id'[i] # api_task_id[i] =>
                        /\ api_task_id'[i] # 0
                        /\ status'[i] = status[i]
                        /\ ops = 0 => status'[i] = PENDING]_vars

\* a submit that failed twice and succeeded the third time
C13_Witness ==
    \E i \in Items :
        /\ sub_pc[i] = "done"
        /\ attempt[i] = 3
        /\ api_task_id[i] # 0
        /\ status[i] = PENDING
        /\ ops = 0

\* the result of a wait_for_task that gave up on its timeout
TimedOut == [success |-> FALSE, status |-> "Timeout", url |-> FALSE]

\* when a wait_for_task of _process_video_item or resume_item gives up on its
\* timeout and the sub-job is not Cancelled, the sub-job is marked Failed with
\* the error "Timeout"
TimeoutMarksFailed ==
    [][\A i \in Items :
          ((\/ \E s \in Slots : process_video_item_poll(s, i, TimedOut)
            \/ resume_item_poll(i, TimedOut))
           /\ status[i] # CANCELLED) =>
              (status'[i] = FAILED /\ error_msg'[i] = Timeout)]_vars

\* in fair runs without a crash a sub-job that is Processing eventually is
\* Completed, Failed or Cancelled
ProcessingEnds ==
    \A i \in Items : (status[i] = PROCESSING) ~> (status[i] \in Terminal)

\* C14: a wait_for_task that gives up on its timeout marks the sub-job Failed
\* with the error "Timeout", and in fair runs without a crash a sub-job that
\* is Processing eventually is Completed, Failed or Cancelled.
C14_TimeoutFailsAndProcessingEnds == TimeoutMarksFailed /\ ProcessingEnds

\* a sub-job that was Processing has been failed by a timeout
C14_Witness ==
    \E i \in Items : status[i] = FAILED /\ error_msg[i] = Timeout

\* C15: in fair runs without a crash that start when _submit_batch_tasks has
\* finished, unless the user acts, eventually every sub-job that received a
\* remote job id is Completed, Failed or Cancelled and the batch is no longer
\* Processing.
C15_SubmittedJobsPolledToEnd ==
    <>(\/ ops > 0
       \/ /\ \A i \in Items : api_task_id[i] # 0 => status[i] \in Terminal
          /\ batch_status # PROCESSING)

\* C16: whenever credits_charged is true every sub-job is Completed, Failed or
\* Cancelled and credits_used is credits_per_video times the number of
\* Completed sub-jobs, also after a settled batch was re-opened.
C16_ChargedMeansFinal ==
    credits_charged =>
        /\ \A i \in Items : status[i] \in Terminal
        /\ credits_used = CreditsPerVideo * completed_count(status)

\* C17: credits_used is the amount actually deducted from the owner so far:
\* between settlement passes, in runs without a crash, the cumulative amount
\* taken from the owner's balance for the batch equals credits_used.
C17_CreditsUsedIsDeducted ==
    restarts = 0 => deducted = credits_used

\* C18: reprocess_item on a sub-job that has a remote job id never makes a new
\* submission: the step of its _process_video_item that talks to the remote
\* service leaves the sub-job's api_task_id as it was.
C18_ReprocessKeepsRemoteId ==
    [][\A i \in Items :
          (/\ rp_pc[i] = "item"
           /\ api_task_id[i] # 0
           /\ pv_pc["rp"][i] = "submit"
           /\ pv_pc'["rp"][i] # "submit"
           /\ restarts' = restarts) =>
              api_task_id'[i] = api_task_id[i]]_vars

\* C19: cancel_item on a sub-job that is already Completed, Failed or
\* Cancelled returns False and changes nothing: no settlement pass is
\* started and the statuses, error messages, remote ids, batch status,
\* credits_used, the owner's balance and the persisted document stay as
\* they were.
C19_CancelFinishedIsNoOp ==
    [][\A i \in Items :
          (cancel_item(i) /\ status[i] \in Terminal) =>
              /\ cancel_false'
              /\ UNCHANGED <<status, error_msg, api_task_id, video_url,
                             batch_status, credits_used, credits_charged,
                             balance, deducted, store, cn_pc>>]_vars

\* cancel_item has been called on a finished sub-job
C19_Witness ==
    /\ cancel_false
    /\ \E i \in Items : status[i] \in Terminal

\* C20: result URLs are never kept: no sub-job holds a result URL returned by
\* the remote service, neither in memory nor in the persisted batch document.
C20_ResultUrlNeverKept ==
    \A i \in Items : ~video_url[i] /\ ~store.videoUrl[i]

\* C21: no step of the running program takes a sub-job directly from
\* Cancelled to Completed or from Cancelled to Failed.
C21_NoSkipFromCancelled ==
    [][\A i \in Items :
          (status[i] = CANCELLED /\ restarts' = restarts) =>
              status'[i] \notin {COMPLETED, FAILED}]_vars

\* the poll resolves with the remote status CANCELLED
RemoteCancelled == [success |-> TRUE, status |-> "CANCELLED", url |-> FALSE]

\* C22: when the poll of a sub-job that is Processing returns the remote
\* status CANCELLED, in _process_video_item or in resume_item, the sub-job is
\* marked Cancelled, not Failed.
C22_RemoteCancelMarksCancelled ==
    [][\A i \in Items :
          ((\/ \E s \in Slots : process_video_item_poll(s, i, RemoteCancelled)
            \/ resume_item_poll(i, RemoteCancelled))
           /\ status[i] = PROCESSING) =>
              status'[i] = CANCELLED]_vars

\* C23: process_batch leaves alone a sub-job whose submission attempts were
\* exhausted: when its _process_video_item runs on a Pending sub-job without
\* a remote job id, the sub-job stays Pending and gets no remote job id.
C23_ExhaustedLeftPending ==
    [][\A i \in Items :
          (/\ pv_pc["pb"][i] \in {"start", "submit"}
           /\ pv_pc'["pb"][i] # pv_pc["pb"][i]
           /\ attempt[i] = _SUBMIT_RETRY_ATTEMPTS
           /\ api_task_id[i] = 0
           /\ restarts' = restarts) =>
              (status'[i] = status[i] /\ api_task_id'[i] = 0)]_vars

C25_FailedResumeSettles ==
    [][\A i \in Items :
          (/\ rs_pc[i] # "idle"
           /\ rs_pc'[i] = "idle"
           /\ restarts' = restarts
           /\ status'[i] = FAILED) =>
              resume_item_charge(i)]_vars

\* C26: within one pass (_submit_batch_tasks, process_batch or
\* resume_failed_items) at most 3 sub-jobs are inside the gated section at
\* the same time, with more sub-jobs than 3 and in any order of return.
C26_AtMostThreeInGate ==
    Cardinality(InGate) <= 3

\* the gate is full while another sub-job waits and one has already left
C26_Witness ==
    /\ Cardinality(InGate) = 3
    /\ \E i \in GateItems : gate_pc[i] = "waiting"
    /\ \E i \in GateItems : gate_pc[i] = "done"

\* the settlement pass run on the batch as it is now is abandoned at its
\* deduction: deduct_credits refuses, or the await of its result raises
charge_abandoned ==
    LET r == _charge_completed_batch(status, batch_status, credits_used,
                                     credits_charged, balance)
    IN  r.refused \/ r.raised

\* C27: a settlement pass that is abandoned at its deduction applies
\* nothing: credits_used, credits_charged and the owner's balance are the
\* same after the pass as before it.
C27_AbandonedPassAppliesNothing ==
    [][(last_charge' /\ charge_abandoned) =>
          UNCHANGED <<credits_used, credits_charged, balance>>]_vars

\* C28: the error message is cleared on retry and on success: a sub-job that
\* resume_item has just moved to Processing, and a sub-job that is
\* Completed, has no error message.
C28_ErrorClearedOnRetryAndSuccess ==
    \A i \in Items :
        (status[i] = COMPLETED \/ (status[i] = PROCESSING /\ rs_pc[i] = "resume")) =>
            error_msg[i] = NoError

\* C29: a sub-job that cancel_item has marked Cancelled while its submit_one
\* was still submitting is still Cancelled when its submit_one ends, whether
\* the submission succeeded or its attempts were exhausted.
C29_CancelSurvivesSubmission ==
    [][\A i \in Items :
          (/\ status[i] = CANCELLED
           /\ sub_pc[i] = "submitting"
           /\ sub_pc'[i] = "done") =>
              status'[i] = CANCELLED]_vars

\* the processing activities in flight for sub-job i: the _process_video_item
\* of process_batch or of reprocess_item, or a resume_item, between its
\* Processing write and the write of its outcome
InFlight(i) ==
    {s \in Slots : pv_pc[s][i] \in {"submit", "poll"}}
    \cup (IF rs_pc[i] \in {"resume", "poll"} THEN {"rs"} ELSE {})

\* C30: at any time at most one processing activity is in flight per
\* sub-job.
C30_OneActivityPerSubJob ==
    \A i \in Items : Cardinality(InFlight(i)) <= 1

====
